---- MODULE Spec2Model ----
(***************************************************************************)
(* A model of s3tar.py: the archive pipeline (archive_bucket, the reader   *)
(* threads copy_s3_object, the writer thread write_tars_to_s3),            *)
(* extract_bucket, verify_bucket, and main with check_args.                *)
(*                                                                         *)
(* Spec and FairSpec: an archive run, then extract_bucket on what it left. *)
(* SpecQueue: the archive run, with what the limit test saw kept.          *)
(* SpecMain: one run from the command line on, for every combination of    *)
(* the selectors, with --extract and --verify working on buckets left by   *)
(* earlier runs.                                                           *)
(*                                                                         *)
(* Threads are interleaved at the granularity of the statements that touch *)
(* shared state (FIFO, LOCK, the thread table) or that can raise.          *)
(*                                                                         *)
(* Left out: the highwater mark of the writer and the prints of the        *)
(* archive run (diagnostics only); lines 169-182 of archive_bucket, which  *)
(* no run reaches (line 168 raises TypeError); failures of create_tarinfo, *)
(* of smart_open and of the listing.  An object is stored in the archive   *)
(* bucket when its output stream is closed by the code (lines 281-282).    *)
(***************************************************************************)
EXTENDS Integers, Sequences, FiniteSets, TLC

(***************************************************************************)
(* Bounds of the model.                                                    *)
(***************************************************************************)
\* Number of objects in the bucket being archived.
NumObjects == 3

\* Object sizes the bucket content is drawn from.
Sizes == {5, 10}

\* The `size` argument of archive_bucket / write_tars_to_s3 (main passes
\* ARCHIVE_SIZE = 100000000000); scaled down so that rotation happens.
size == 15

\* THREAD_LIMIT = 60 and FIFO_LIMIT = 200 in the source; scaled down so that
\* both halves of the backpressure test are exercised with NumObjects objects.
THREAD_LIMIT == 3
FIFO_LIMIT == 2

\* The literal 5 of `if retry >= 5` in copy_s3_object.
RetryLimit == 5

\* The literal 5 of `time.sleep(5*retry)` in copy_s3_object.
BackoffUnit == 5

(***************************************************************************)
(* Names.                                                                  *)
(***************************************************************************)
bucket_name == <<"b">>

COMPRESS_MODE == "w|gz"
COMPRESS_TAIL == <<".tar", ".gz">>
UNCOMPRESS_MODE == "w|"
UNCOMPRESS_TAIL == <<".tar">>

Digits == <<"0", "1", "2", "3", "4", "5", "6", "7", "8", "9">>

\* '%d' % n for n >= 0.
RECURSIVE Fmt_d(_)
Fmt_d(n) ==
  IF n < 10 THEN <<Digits[n + 1]>>
  ELSE Fmt_d(n \div 10) \o <<Digits[(n % 10) + 1]>>

\* The key part of tar_name: '%s_file%d%s' % (bucket_name, tarfile_count, tail).
tar_name(count, tail) == bucket_name \o <<"_file">> \o Fmt_d(count) \o tail

Keys == 1..NumObjects

\* Thread identities for LOCK: 0 is "unlocked", a key is the reader thread
\* started for that object, WRITER is the writer thread.
WRITER == NumObjects + 1

\* Python's None in the place of a tarinfo or a content: object keys are
\* 1..NumObjects, so the name 0 belongs to no object.
NoTarinfo == [name |-> 0, size |-> 0]
NoContent == [body |-> <<>>, nbytes |-> 0]

\* The tuple (None, None), the end mark of the FIFO.
None == [tarinfo |-> NoTarinfo, content |-> NoContent]

VARIABLES
  bucket,         \* the bucket to archive: key -> [size, body]
  compress,       \* the --compression flag
  o_pc,           \* archive_bucket: position of the main thread
  o_idx,          \* archive_bucket: next object of bucket.objects.all()
  r_pc,           \* copy_s3_object, per object: position of the reader thread
  retry,          \* copy_s3_object, per object: the local `retry`
  slept,          \* copy_s3_object, per object: argument of the last time.sleep
  LOCK,           \* holder of the global LOCK (0: free)
  FIFO,           \* the global deque
  appended,       \* history: the names of the tuples appended to FIFO, in order
  w_pc,           \* write_tars_to_s3: position of the writer thread
  w_item,         \* write_tars_to_s3: the tuple popped last
  tarfile_count,  \* write_tars_to_s3: local
  bytes_written,  \* write_tars_to_s3: local
  tars,           \* the tar streams opened so far, by tarfile_count
  x_pc,           \* extract_bucket: position
  x_list,         \* extract_bucket: the listing of the archive bucket
  x_tar,          \* extract_bucket: index into x_list
  x_member,       \* extract_bucket: next member of the open tar
  x_mode,         \* extract_bucket: the local `mode` of the open tar
  x_report,       \* extract_bucket: what it printed before it returned
  x_log,          \* history: the <<tar key, member name>> uploads, in order
  new_exists,     \* whether the bucket extracted to exists
  new_bucket,     \* the bucket extracted to: a set of [key, body]
  archive_exists, \* whether the archive bucket exists
  ARGS,           \* the parsed command line
  m_pc,           \* main: position
  m_op,           \* main: the operation it called ("none": none yet)
  m_diag,         \* main and check_args: what they printed
  exit_code,      \* the exit status of the process, once m_pc = "exited"
  v_pc,           \* verify_bucket: position
  v_idx,          \* verify_bucket: next object of bucket.objects.all()
  v_md5,          \* verify_bucket: the locals md5sum and new_md5sum
  v_lookups,      \* history: the head_object calls, <<bucket, key>>, in order
  v_report,       \* verify_bucket: what it printed before it returned
  q_depth,        \* history: len(FIFO) when the limit test last passed
  q_running       \* history: reader threads alive when it last passed

vars == <<bucket, compress, o_pc, o_idx, r_pc, retry, slept, LOCK, FIFO,
          appended,
          w_pc, w_item, tarfile_count, bytes_written, tars,
          x_pc, x_list, x_tar, x_member, x_mode, x_report, x_log,
          new_exists, new_bucket, archive_exists,
          ARGS, m_pc, m_op, m_diag, exit_code,
          v_pc, v_idx, v_md5, v_lookups, v_report,
          q_depth, q_running>>

o_vars == <<o_pc, o_idx>>
r_vars == <<r_pc, retry, slept>>
w_vars == <<w_pc, w_item, tarfile_count, bytes_written, tars>>
x_vars == <<x_pc, x_list, x_tar, x_member, x_mode, x_report, x_log,
            new_exists, new_bucket>>
m_vars == <<ARGS, m_pc, m_op, m_diag, exit_code>>
v_vars == <<v_pc, v_idx, v_md5, v_lookups, v_report>>
q_vars == <<q_depth, q_running>>
\* What the steps of the archive run and of extract_bucket leave alone.
in_vars == <<bucket, compress, archive_exists, m_vars, v_vars, q_vars>>

\* The payload of the object stored under key k.
Body(k) == <<"body", k>>

\* ARGS.new_bucket_name when -n is not given (argparse default=None).
NoName == "None"

\* The threads and the pipeline before archive_bucket has done anything.
ArchiveAtStart ==
  /\ o_pc = "start_writer"
  /\ o_idx = 1
  /\ r_pc = [k \in Keys |-> "unstarted"]
  /\ retry = [k \in Keys |-> 0]
  /\ slept = [k \in Keys |-> 0]
  /\ LOCK = 0
  /\ FIFO = <<>>
  /\ appended = <<>>
  /\ w_pc = "unstarted"
  /\ w_item = None
  /\ tarfile_count = 1
  /\ bytes_written = 0
  /\ q_depth = 0
  /\ q_running = 0

\* extract_bucket and verify_bucket before they are called.
ExtractAtStart ==
  /\ x_pc = "idle"
  /\ x_list = <<>>
  /\ x_tar = 1
  /\ x_member = 1
  /\ x_mode = "none"
  /\ x_report = "none"
  /\ x_log = <<>>

\* verify_bucket has printed nothing.
NoReport == [kind |-> "none", key |-> 0, old |-> <<>>, new |-> <<>>]

VerifyAtStart ==
  /\ v_pc = "for"
  /\ v_idx = 1
  /\ v_md5 = <<<<>>, <<>>>>
  /\ v_lookups = <<>>
  /\ v_report = NoReport

\* A run started with --create, at the call of archive_bucket; the archive
\* bucket exists, the bucket to extract to does not.
Init ==
  /\ \E sz \in [Keys -> Sizes] :
       bucket = [k \in Keys |-> [size |-> sz[k], body |-> Body(k)]]
  /\ compress \in BOOLEAN
  /\ ArchiveAtStart
  /\ tars = <<>>
  /\ ExtractAtStart
  /\ new_exists = FALSE
  /\ new_bucket = {}
  /\ archive_exists = TRUE
  /\ ARGS = [create |-> TRUE, extract |-> FALSE, verify |-> FALSE,
             new_bucket_name |-> NoName]
  /\ m_pc = "archive"
  /\ m_op = "create"
  /\ m_diag = "none"
  /\ exit_code = 0
  /\ VerifyAtStart

(***************************************************************************)
(* archive_bucket (the main thread).                                       *)
(***************************************************************************)
\* Reader threads that have been started and have not returned.
RunningReaders == {k \in Keys : r_pc[k] \in {"download", "lock", "append"}}

WriterAlive == w_pc \notin {"unstarted", "returned", "dead"}

\* threading.active_count(): the main thread, the writer, the readers.
active_count == 1 + (IF WriterAlive THEN 1 ELSE 0) + Cardinality(RunningReaders)

\* Faulty variant of OverLimit: the FIFO may fill up to the limit.
OverLimit_FifoAbove == active_count > THREAD_LIMIT \/ Len(FIFO) > FIFO_LIMIT

\* Faulty variant of OverLimit: the test of the FIFO left out.
OverLimit_ThreadsOnly == active_count > THREAD_LIMIT

\* The condition of the while loop at line 159.
OverLimit == active_count > THREAD_LIMIT \/ Len(FIFO) >= FIFO_LIMIT

\* The for loop's next step: the body for the next object, or, the listing
\* exhausted, the wait for the readers.
ForNext(idx) == IF idx <= NumObjects THEN "poll" ELSE "wait_readers"

\* writer = threading.Thread(...); writer.start()
OrchStartWriter ==
  /\ o_pc = "start_writer"
  /\ w_pc' = "open"
  /\ o_pc' = ForNext(o_idx)
  /\ UNCHANGED <<o_idx, r_vars, LOCK, FIFO, appended, w_item, tarfile_count,
                 bytes_written, tars, x_vars, in_vars>>

\* The while condition holds: print, time.sleep(2).
OrchSleepOnLimit ==
  /\ o_pc = "poll"
  /\ OverLimit
  /\ o_pc' = "sleep"
  /\ UNCHANGED <<o_idx, r_vars, LOCK, FIFO, appended, w_vars, x_vars, in_vars>>

OrchWake ==
  /\ o_pc = "sleep"
  /\ o_pc' = "poll"
  /\ UNCHANGED <<o_idx, r_vars, LOCK, FIFO, appended, w_vars, x_vars, in_vars>>

\* The while condition is false: the loop is left.
OrchPassLimit ==
  /\ o_pc = "poll"
  /\ ~OverLimit
  /\ o_pc' = "spawn"
  /\ UNCHANGED <<o_idx, r_vars, LOCK, FIFO, appended, w_vars, x_vars, in_vars>>

\* reader = threading.Thread(target=copy_s3_object, ...); reader.start()
OrchStartReader ==
  /\ o_pc = "spawn"
  /\ r_pc' = [r_pc EXCEPT ![o_idx] = "download"]
  /\ o_idx' = o_idx + 1
  /\ o_pc' = ForNext(o_idx + 1)
  /\ UNCHANGED <<retry, slept, LOCK, FIFO, appended, w_vars, x_vars, in_vars>>

\* Line 168, `while threading.active_count > 2:` compares the function
\* object with an int: Python 3 raises TypeError, the bare except at line
\* 189 prints it and archive_bucket returns.  Lines 169-182 (the end mark,
\* the join of the writer) are never executed.
OrchWaitReaders ==
  /\ o_pc = "wait_readers"
  /\ o_pc' = "returned"
  /\ UNCHANGED <<o_idx, r_vars, LOCK, FIFO, appended, w_vars, x_vars, in_vars>>

(***************************************************************************)
(* copy_s3_object (one reader thread per object).                          *)
(***************************************************************************)
\* Faulty variant of RetriesExhausted: the test >.
RetriesExhausted_Gt(r) == r > RetryLimit

\* `if retry >= 5` at line 212.
RetriesExhausted(r) == r >= RetryLimit

\* The argument of time.sleep at line 217, after retry was incremented.
Backoff(r) == BackoffUnit * r

\* The tuple appended at line 222: create_tarinfo(object) and the BytesIO.
Entry(k) ==
  [tarinfo |-> [name |-> k, size |-> bucket[k].size],
   content |-> [body |-> bucket[k].body, nbytes |-> bucket[k].size]]

\* download_fileobj raises ProtocolError and retries are left.
ReaderRetry(k) ==
  /\ r_pc[k] = "download"
  /\ ~RetriesExhausted(retry[k])
  /\ retry' = [retry EXCEPT ![k] = retry[k] + 1]
  /\ slept' = [slept EXCEPT ![k] = Backoff(retry[k] + 1)]
  /\ UNCHANGED <<r_pc, o_vars, LOCK, FIFO, appended, w_vars, x_vars, in_vars>>

\* download_fileobj raises ProtocolError and retry >= 5: return False.
\* The thread's locals end with it.
ReaderGiveUp(k) ==
  /\ r_pc[k] = "download"
  /\ RetriesExhausted(retry[k])
  /\ r_pc' = [r_pc EXCEPT ![k] = "dropped"]
  /\ retry' = [retry EXCEPT ![k] = 0]
  /\ slept' = [slept EXCEPT ![k] = 0]
  /\ UNCHANGED <<o_vars, LOCK, FIFO, appended, w_vars, x_vars, in_vars>>

\* download_fileobj returns: break, content.seek(0), create_tarinfo.
ReaderDownloaded(k) ==
  /\ r_pc[k] = "download"
  /\ r_pc' = [r_pc EXCEPT ![k] = "lock"]
  /\ UNCHANGED <<retry, slept, o_vars, LOCK, FIFO, appended, w_vars, x_vars,
                 in_vars>>

\* LOCK.acquire()
ReaderLock(k) ==
  /\ r_pc[k] = "lock"
  /\ LOCK = 0
  /\ LOCK' = k
  /\ r_pc' = [r_pc EXCEPT ![k] = "append"]
  /\ UNCHANGED <<retry, slept, o_vars, FIFO, appended, w_vars, x_vars, in_vars>>

\* FIFO.append( (tarinfo, content) ); LOCK.release(); return True
\* The thread's locals end with it.
ReaderAppend(k) ==
  /\ r_pc[k] = "append"
  /\ FIFO' = Append(FIFO, Entry(k))
  /\ appended' = Append(appended, Entry(k).tarinfo.name)
  /\ LOCK' = 0
  /\ r_pc' = [r_pc EXCEPT ![k] = "ok"]
  /\ retry' = [retry EXCEPT ![k] = 0]
  /\ slept' = [slept EXCEPT ![k] = 0]
  /\ UNCHANGED <<o_vars, w_vars, x_vars, in_vars>>

(***************************************************************************)
(* write_tars_to_s3 (the writer thread).                                   *)
(***************************************************************************)
mode == IF compress THEN COMPRESS_MODE ELSE UNCOMPRESS_MODE
tail == IF compress THEN COMPRESS_TAIL ELSE UNCOMPRESS_TAIL

\* smart_open.smart_open(tar_name, 'wb'); tarfile.open(mode=mode, fileobj=...)
\* The object appears in the archive bucket when archive_out is closed.
OpenTar(count) ==
  [key |-> tar_name(count, tail), mode |-> mode, members |-> <<>>,
   tf_closed |-> FALSE, out_closed |-> FALSE]

\* Faulty variants of MustRotate: the test against twice the size; the
\* test >=.
MustRotate_Twice(written) == written > 2 * size
MustRotate_Geq(written) == written >= size

\* `if bytes_written > size` at line 279.
MustRotate(written) == written > size

\* time.sleep(5); archive_out = smart_open(...); tf = tarfile.open(...)
WriterOpen ==
  /\ w_pc = "open"
  /\ tars' = <<OpenTar(tarfile_count)>>
  /\ w_pc' = "lock"
  /\ UNCHANGED <<w_item, tarfile_count, bytes_written, o_vars, r_vars, LOCK,
                 FIFO, appended, x_vars, in_vars>>

\* LOCK.acquire()
WriterLock ==
  /\ w_pc = "lock"
  /\ LOCK = 0
  /\ LOCK' = WRITER
  /\ w_pc' = "pop"
  /\ UNCHANGED <<w_item, tarfile_count, bytes_written, tars, o_vars, r_vars,
                 FIFO, appended, x_vars, in_vars>>

\* Faulty variant of WriterPop: FIFO.pop(), the newest tuple.
WriterPop_Right ==
  /\ w_pc = "pop"
  /\ FIFO # <<>>
  /\ w_item' = FIFO[Len(FIFO)]
  /\ FIFO' = SubSeq(FIFO, 1, Len(FIFO) - 1)
  /\ LOCK' = 0
  /\ w_pc' = IF FIFO[Len(FIFO)].tarinfo = NoTarinfo THEN "returned" ELSE "rotate"
  /\ UNCHANGED <<tarfile_count, bytes_written, tars, appended, o_vars, r_vars,
                 x_vars, in_vars>>

\* (tarinfo, content) = FIFO.popleft(); LOCK.release(); on the end mark
\* (tarinfo == None) return, leaving tf and archive_out as they are.
WriterPop ==
  /\ w_pc = "pop"
  /\ FIFO # <<>>
  /\ w_item' = Head(FIFO)
  /\ FIFO' = Tail(FIFO)
  /\ LOCK' = 0
  /\ w_pc' = IF Head(FIFO).tarinfo = NoTarinfo THEN "returned" ELSE "rotate"
  /\ UNCHANGED <<tarfile_count, bytes_written, tars, appended, o_vars, r_vars,
                 x_vars, in_vars>>

\* FIFO.popleft() raises IndexError: print, LOCK.release(), time.sleep(2)
WriterHitIndexError ==
  /\ w_pc = "pop"
  /\ FIFO = <<>>
  /\ LOCK' = 0
  /\ w_pc' = "sleep"
  /\ UNCHANGED <<w_item, tarfile_count, bytes_written, tars, o_vars, r_vars,
                 FIFO, appended, x_vars, in_vars>>

\* continue
WriterWake ==
  /\ w_pc = "sleep"
  /\ w_pc' = "lock"
  /\ UNCHANGED <<w_item, tarfile_count, bytes_written, tars, o_vars, r_vars,
                 LOCK, FIFO, appended, x_vars, in_vars>>

\* Lines 279-287: over the size, close the tar and open the next one.
WriterRotate ==
  /\ w_pc = "rotate"
  /\ IF MustRotate(bytes_written)
       THEN /\ bytes_written' = 0
            /\ tarfile_count' = tarfile_count + 1
            /\ tars' = Append([tars EXCEPT ![tarfile_count].tf_closed = TRUE,
                                           ![tarfile_count].out_closed = TRUE],
                              OpenTar(tarfile_count + 1))
       ELSE UNCHANGED <<bytes_written, tarfile_count, tars>>
  /\ w_pc' = "addfile"
  /\ UNCHANGED <<w_item, o_vars, r_vars, LOCK, FIFO, appended, x_vars, in_vars>>

\* tf.addfile(tarinfo, content); bytes_written += nbytes; content.close()
WriterAddfile ==
  /\ w_pc = "addfile"
  /\ tars' = [tars EXCEPT ![tarfile_count].members = Append(@, w_item)]
  /\ bytes_written' = bytes_written + w_item.content.nbytes
  /\ w_pc' = "lock"
  /\ UNCHANGED <<w_item, tarfile_count, o_vars, r_vars, LOCK, FIFO, appended, x_vars,
                 in_vars>>

\* tf.addfile raises (zlib.error, tarfile.HeaderError, ProtocolError: the
\* handlers print and sys.exit(-1), which ends this thread only; any other
\* exception: print and fall off the end).  Nothing is closed.
WriterFault ==
  /\ w_pc = "addfile"
  /\ w_pc' = "dead"
  /\ UNCHANGED <<w_item, tarfile_count, bytes_written, tars, o_vars, r_vars,
                 LOCK, FIFO, appended, x_vars, in_vars>>

(***************************************************************************)
(* extract_bucket, run once the archive run has nothing left to do.        *)
(***************************************************************************)
\* Faulty variant of IsPrefix: the whole key is compared.
IsPrefix_Whole(p, s) == p = s

IsPrefix(p, s) == Len(p) <= Len(s) /\ SubSeq(s, 1, Len(p)) = p

\* Faulty variant of get_compressed_mode: the extension is compared with
\* COMPRESS_TAIL, which splitext never returns.
get_compressed_mode_Tail(name) ==
  IF Len(name) > 0 /\ <<name[Len(name)]>> = COMPRESS_TAIL THEN "r|gz" ELSE "r|"

\* os.path.splitext(name)[1] == '.gz'
get_compressed_mode(name) ==
  IF Len(name) > 0 /\ name[Len(name)] = ".gz" THEN "r|gz" ELSE "r|"

\* What tarfile.open accepts: a stream written 'w|gz' read 'r|gz', a stream
\* written 'w|' read 'r|'.
Readable(written, read) ==
  \/ written = COMPRESS_MODE /\ read = "r|gz"
  \/ written = UNCOMPRESS_MODE /\ read = "r|"

\* The objects of the archive bucket: the tars whose archive_out was closed.
Stored == {i \in DOMAIN tars : tars[i].out_closed}

\* archive_bucket.objects.filter(Prefix=bucket_name), in listing order (the
\* keys <bucket>_file<N><tail> with N < 10 list in the order of N).
RECURSIVE Listing(_)
Listing(i) ==
  IF i > Len(tars) THEN <<>>
  ELSE (IF i \in Stored /\ IsPrefix(bucket_name, tars[i].key)
          THEN <<i>> ELSE <<>>) \o Listing(i + 1)

\* extract_bucket can be called: main has just called it, or (a later run
\* of the program) the archive run is over: archive_bucket has returned, no
\* reader is left, and the writer is dead or has drained the FIFO and sleeps.
ArchiveSettled ==
  \/ m_pc = "extract"
  \/ /\ o_pc = "returned"
     /\ RunningReaders = {}
     /\ w_pc = "dead" \/ (w_pc = "sleep" /\ FIFO = <<>>)

\* not bucket_exists(archive_name): the print formats {archive_bucket}, a
\* local not yet assigned: UnboundLocalError, which the bare except prints;
\* extract_bucket returns.
ExtractNoArchive ==
  /\ x_pc = "idle"
  /\ ArchiveSettled
  /\ ~archive_exists
  /\ x_report' = "UnboundLocalError"
  /\ x_pc' = "done"
  /\ UNCHANGED <<x_list, x_tar, x_member, x_mode, x_log, new_exists,
                 new_bucket, o_vars, r_vars, LOCK, FIFO, appended, w_vars,
                 in_vars>>

\* What `except SystemExit as e` of extract_bucket and of main does with
\* e.code: os._exit(0) for 0; for any other code it prints, the function
\* returns and the interpreter ends as after any script that ran to its end.
StatusAfterSystemExit(code) == IF code = 0 THEN 0 ELSE 0

\* bucket_exists(new_bucket_name) has a bucket name to ask for.
NewNameGiven == m_pc = "extract" => ARGS.new_bucket_name # NoName

\* bucket_exists(new_bucket_name): print, sys.exit(0), caught by `except
\* SystemExit` of extract_bucket: os._exit(0).
ExtractNewExists ==
  /\ x_pc = "idle"
  /\ ArchiveSettled
  /\ archive_exists
  /\ NewNameGiven
  /\ new_exists
  /\ x_report' = "new bucket exists"
  /\ x_pc' = "done"
  /\ m_pc' = "exited"
  /\ exit_code' = StatusAfterSystemExit(0)
  /\ UNCHANGED <<x_list, x_tar, x_member, x_mode, x_log, new_exists,
                 new_bucket, o_vars, r_vars, LOCK, FIFO, appended, w_vars,
                 bucket, compress, archive_exists, ARGS, m_op, m_diag,
                 v_vars, q_vars>>

\* Both existence tests pass: create_bucket, and the listing of the archive
\* bucket.  Nothing listed: not_found stays True, the message is printed
\* and extract_bucket returns.
ExtractStart ==
  /\ x_pc = "idle"
  /\ ArchiveSettled
  /\ archive_exists
  /\ NewNameGiven
  /\ ~new_exists
  /\ new_exists' = TRUE
  /\ x_list' = Listing(1)
  /\ x_tar' = 1
  /\ x_report' = IF Listing(1) = <<>> THEN "not found" ELSE "none"
  /\ x_pc' = IF Listing(1) = <<>> THEN "done" ELSE "open"
  /\ UNCHANGED <<x_member, x_mode, x_log, new_bucket, o_vars, r_vars, LOCK,
                 FIFO, appended, w_vars, in_vars>>

\* smart_open(tar_name, 'rb'); mode = get_compressed_mode(object.key);
\* tf = tarfile.open(mode=mode, ...); member = tf.next()
\* A stream the mode cannot read raises tarfile.ReadError: the bare except
\* prints it and extract_bucket returns.
ExtractOpen ==
  /\ x_pc = "open"
  /\ x_member' = 1
  /\ x_mode' = get_compressed_mode(tars[x_list[x_tar]].key)
  /\ IF Readable(tars[x_list[x_tar]].mode,
                 get_compressed_mode(tars[x_list[x_tar]].key))
       THEN x_pc' = "member" /\ x_report' = x_report
       ELSE x_pc' = "done" /\ x_report' = "ReadError"
  /\ UNCHANGED <<x_list, x_tar, x_log, new_exists, new_bucket, o_vars,
                 r_vars, LOCK, FIFO, appended, w_vars, in_vars>>

\* S3's put: the object under the key is replaced.
Put(b, key, body) == {o \in b : o.key # key} \cup {[key |-> key, body |-> body]}

\* Faulty variant of NextMember: a member is skipped.
NextMember_Skip(m) == m + 2

\* member = tf.next(): the members come in the order they were added.
NextMember(m) == m + 1

\* member != None: new_bucket.upload_fileobj(bdata, member.name); tf.next()
ExtractMember ==
  /\ x_pc = "member"
  /\ x_member <= Len(tars[x_list[x_tar]].members)
  /\ LET m == tars[x_list[x_tar]].members[x_member]
     IN  /\ new_bucket' = Put(new_bucket, m.tarinfo.name, m.content.body)
         /\ x_log' = Append(x_log, <<tars[x_list[x_tar]].key, m.tarinfo.name>>)
  /\ x_member' = NextMember(x_member)
  /\ UNCHANGED <<x_pc, x_list, x_tar, x_mode, x_report, new_exists, o_vars,
                 r_vars, LOCK, FIFO, appended, w_vars, in_vars>>

\* member == None: tf.close(); archive_in.close(); the next listed object.
ExtractCloseTar ==
  /\ x_pc = "member"
  /\ x_member > Len(tars[x_list[x_tar]].members)
  /\ x_tar' = x_tar + 1
  /\ x_pc' = IF x_tar + 1 <= Len(x_list) THEN "open" ELSE "done"
  /\ UNCHANGED <<x_member, x_list, x_mode, x_report, x_log, new_exists,
                 new_bucket, o_vars, r_vars, LOCK, FIFO, appended, w_vars,
                 in_vars>>

(***************************************************************************)
(* verify_bucket.                                                          *)
(***************************************************************************)
\* The MD5 digest of a payload, as hex text: distinct for distinct payloads.
md5(body) == <<"md5">> \o body

\* head_object(...)['ETag'] of an object uploaded in one part: the digest in
\* double quotes.
ETag(body) == <<"\"">> \o md5(body) \o <<"\"">>

\* ['ETag'][1:-1]
Unquoted(etag) == SubSeq(etag, 2, Len(etag) - 1)

\* for object in bucket.objects.all(): the next object, or the loop is over
\* and verify_bucket returns.
VerifyFor ==
  /\ m_pc = "verify"
  /\ v_pc = "for"
  /\ v_pc' = IF v_idx <= NumObjects THEN "head_old" ELSE "done"
  /\ UNCHANGED <<v_idx, v_md5, v_lookups, v_report, bucket, compress,
                 archive_exists, m_vars, q_vars, o_vars, r_vars, LOCK, FIFO,
                 appended, w_vars, x_vars>>

\* md5sum = s3_client.head_object(Bucket=bucket_name, Key=object.key)...
VerifyHeadOld ==
  /\ v_pc = "head_old"
  /\ v_md5' = <<Unquoted(ETag(bucket[v_idx].body)), <<>>>>
  /\ v_lookups' = Append(v_lookups, <<"bucket_name", v_idx>>)
  /\ v_pc' = "head_new"
  /\ UNCHANGED <<v_idx, v_report, bucket, compress, archive_exists, m_vars,
                 q_vars, o_vars, r_vars, LOCK, FIFO, appended, w_vars,
                 x_vars>>

\* new_md5sum = s3_client.head_object(Bucket=new_bucket_name, ...)...
\* No name was given: botocore's ParamValidationError, which the bare except
\* prints.  No such key: ClientError, whose handler reads e.err_type, an
\* attribute ClientError does not have: the AttributeError leaves
\* verify_bucket and the bare except of main prints it.
VerifyHeadNew ==
  /\ v_pc = "head_new"
  /\ v_lookups' = Append(v_lookups, <<"new_bucket_name", v_idx>>)
  /\ LET found == {o \in new_bucket : o.key = v_idx}
     IN  IF ARGS.new_bucket_name = NoName
           THEN /\ v_report' = [NoReport EXCEPT !.kind = "ParamValidationError"]
                /\ v_pc' = "done"
                /\ v_md5' = v_md5
         ELSE IF found = {}
           THEN /\ v_report' = [NoReport EXCEPT !.kind = "AttributeError"]
                /\ v_pc' = "done"
                /\ v_md5' = v_md5
         ELSE /\ v_md5' = <<v_md5[1],
                            Unquoted(ETag((CHOOSE o \in found : TRUE).body))>>
              /\ v_pc' = "compare"
              /\ v_report' = v_report
  /\ UNCHANGED <<v_idx, bucket, compress, archive_exists, m_vars, q_vars,
                 o_vars, r_vars, LOCK, FIFO, appended, w_vars, x_vars>>

\* Faulty variant of Differ: only the first character is compared.
Differ_FirstChar(md5sum, new_md5sum) == Head(md5sum) # Head(new_md5sum)

\* if md5sum != new_md5sum
Differ(md5sum, new_md5sum) == md5sum # new_md5sum

\* The checksums differ: the three prints, then sys.exit(-1), which the bare
\* except of verify_bucket catches and prints; verify_bucket returns.
VerifyDiffer ==
  /\ v_pc = "compare"
  /\ Differ(v_md5[1], v_md5[2])
  /\ v_report' = [kind |-> "differ", key |-> v_idx, old |-> v_md5[1],
                  new |-> v_md5[2]]
  /\ v_pc' = "done"
  /\ UNCHANGED <<v_idx, v_md5, v_lookups, bucket, compress, archive_exists,
                 m_vars, q_vars, o_vars, r_vars, LOCK, FIFO, appended,
                 w_vars, x_vars>>

\* The checksums are equal: on to the next object.
VerifySame ==
  /\ v_pc = "compare"
  /\ ~Differ(v_md5[1], v_md5[2])
  /\ v_idx' = v_idx + 1
  /\ v_pc' = "for"
  /\ UNCHANGED <<v_md5, v_lookups, v_report, bucket, compress,
                 archive_exists, m_vars, q_vars, o_vars, r_vars, LOCK, FIFO,
                 appended, w_vars, x_vars>>

(***************************************************************************)
(* main and check_args.                                                    *)
(***************************************************************************)
\* check_args: "return" when it returns, "exit" when it calls sys.exit(-1).
\* No branch is taken when no selector or more than one is set: the
\* function ends and returns.
check_args(a) ==
  IF a.create /\ ~(a.extract \/ a.verify) THEN "return"
  ELSE IF a.extract /\ ~(a.create \/ a.verify)
    THEN (IF a.new_bucket_name = NoName THEN "exit" ELSE "return")
  ELSE IF a.verify /\ ~(a.create \/ a.extract)
    THEN (IF a.new_bucket_name = NoName THEN "exit" ELSE "return")
  ELSE "return"

\* if ARGS.create: ... elif ARGS.extract: ... elif ARGS.verify: ... else: ...
Selected(a) ==
  IF a.create THEN "create"
  ELSE IF a.extract THEN "extract"
  ELSE IF a.verify THEN "verify"
  ELSE "none"

\* check_args() returns.
MainCheckArgsReturn ==
  /\ m_pc = "check_args"
  /\ check_args(ARGS) = "return"
  /\ m_pc' = "dispatch"
  /\ UNCHANGED <<ARGS, m_op, m_diag, exit_code, bucket, compress,
                 archive_exists, v_vars, q_vars, o_vars, r_vars, LOCK, FIFO,
                 appended, w_vars, x_vars>>

\* check_args() prints that a new bucket name is needed and calls
\* sys.exit(-1); `except SystemExit` of main prints it and main returns.
MainCheckArgsExit ==
  /\ m_pc = "check_args"
  /\ check_args(ARGS) = "exit"
  /\ m_diag' = "new bucket name must be specified"
  /\ m_pc' = "exited"
  /\ exit_code' = StatusAfterSystemExit(-1)
  /\ UNCHANGED <<ARGS, m_op, bucket, compress, archive_exists, v_vars,
                 q_vars, o_vars, r_vars, LOCK, FIFO, appended, w_vars,
                 x_vars>>

\* The if/elif chain of main, up to the call of the selected operation.
MainDispatch ==
  /\ m_pc = "dispatch"
  /\ Selected(ARGS) # "none"
  /\ m_op' = Selected(ARGS)
  /\ m_pc' = IF Selected(ARGS) = "create" THEN "archive" ELSE Selected(ARGS)
  /\ UNCHANGED <<ARGS, m_diag, exit_code, bucket, compress, archive_exists,
                 v_vars, q_vars, o_vars, r_vars, LOCK, FIFO, appended,
                 w_vars, x_vars>>

\* else: print('Nothing to do, quitting'); main returns.
MainNothingToDo ==
  /\ m_pc = "dispatch"
  /\ Selected(ARGS) = "none"
  /\ m_diag' = "Nothing to do, quitting"
  /\ m_pc' = "exited"
  /\ exit_code' = 0
  /\ UNCHANGED <<ARGS, m_op, bucket, compress, archive_exists, v_vars,
                 q_vars, o_vars, r_vars, LOCK, FIFO, appended, w_vars,
                 x_vars>>

\* extract_bucket called with new_bucket_name None (check_args let a
\* command line with two selectors through): bucket_exists(None) raises
\* botocore's ParamValidationError, which the bare except of extract_bucket
\* prints.
ExtractNoName ==
  /\ x_pc = "idle"
  /\ m_pc = "extract"
  /\ archive_exists
  /\ ARGS.new_bucket_name = NoName
  /\ x_report' = "ParamValidationError"
  /\ x_pc' = "done"
  /\ UNCHANGED <<x_list, x_tar, x_member, x_mode, x_log, new_exists,
                 new_bucket, o_vars, r_vars, LOCK, FIFO, appended, w_vars,
                 in_vars>>

\* extract_bucket or verify_bucket is back (an AttributeError out of
\* verify_bucket is printed by the bare except of main): main returns and
\* the interpreter ends.
MainReturn ==
  /\ \/ m_pc = "extract" /\ x_pc = "done"
     \/ m_pc = "verify" /\ v_pc = "done"
  /\ m_diag' = IF m_pc = "verify" /\ v_report.kind = "AttributeError"
                 THEN "Unexpected error in main" ELSE m_diag
  /\ m_pc' = "exited"
  /\ exit_code' = 0
  /\ UNCHANGED <<ARGS, m_op, bucket, compress, archive_exists, v_vars,
                 q_vars, o_vars, r_vars, LOCK, FIFO, appended, w_vars,
                 x_vars>>

\* The threads, each as the disjunction of its steps.
OrchStep ==
  \/ OrchStartWriter
  \/ OrchSleepOnLimit
  \/ OrchWake
  \/ OrchPassLimit
  \/ OrchStartReader
  \/ OrchWaitReaders

ReaderStep(k) ==
  \/ ReaderRetry(k)
  \/ ReaderGiveUp(k)
  \/ ReaderDownloaded(k)
  \/ ReaderLock(k)
  \/ ReaderAppend(k)

WriterStep ==
  \/ WriterOpen
  \/ WriterLock
  \/ WriterPop
  \/ WriterHitIndexError
  \/ WriterWake
  \/ WriterRotate
  \/ WriterAddfile
  \/ WriterFault

Next ==
  \/ OrchStartWriter
  \/ OrchSleepOnLimit
  \/ OrchWake
  \/ OrchPassLimit
  \/ OrchStartReader
  \/ OrchWaitReaders
  \/ \E k \in Keys : ReaderRetry(k)
  \/ \E k \in Keys : ReaderGiveUp(k)
  \/ \E k \in Keys : ReaderDownloaded(k)
  \/ \E k \in Keys : ReaderLock(k)
  \/ \E k \in Keys : ReaderAppend(k)
  \/ WriterOpen
  \/ WriterLock
  \/ WriterPop
  \/ WriterHitIndexError
  \/ WriterWake
  \/ WriterRotate
  \/ WriterAddfile
  \/ WriterFault
  \/ ExtractStart
  \/ ExtractOpen
  \/ ExtractMember
  \/ ExtractCloseTar

Spec == Init /\ [][Next]_vars

(***************************************************************************)
(* The archive run with the outcome of the limit test kept: what          *)
(* OrchPassLimit does, and a note of len(FIFO) and of the reader threads   *)
(* alive at the moment the while condition was false.                      *)
(***************************************************************************)
OrchPassLimitNoted ==
  /\ o_pc = "poll"
  /\ ~OverLimit
  /\ o_pc' = "spawn"
  /\ q_depth' = Len(FIFO)
  /\ q_running' = Cardinality(RunningReaders)
  /\ UNCHANGED <<o_idx, r_vars, LOCK, FIFO, appended, w_vars, x_vars, bucket,
                 compress, archive_exists, m_vars, v_vars>>

\* As Init, with objects of one size and no compression.
InitQueue ==
  /\ \E sz \in Sizes :
       bucket = [k \in Keys |-> [size |-> sz, body |-> Body(k)]]
  /\ compress = FALSE
  /\ ArchiveAtStart
  /\ tars = <<>>
  /\ ExtractAtStart
  /\ new_exists = FALSE
  /\ new_bucket = {}
  /\ archive_exists = TRUE
  /\ ARGS = [create |-> TRUE, extract |-> FALSE, verify |-> FALSE,
             new_bucket_name |-> NoName]
  /\ m_pc = "archive"
  /\ m_op = "create"
  /\ m_diag = "none"
  /\ exit_code = 0
  /\ VerifyAtStart

NextQueue ==
  \/ OrchStartWriter
  \/ OrchSleepOnLimit
  \/ OrchWake
  \/ OrchPassLimitNoted
  \/ OrchStartReader
  \/ OrchWaitReaders
  \/ \E k \in Keys : ReaderRetry(k)
  \/ \E k \in Keys : ReaderGiveUp(k)
  \/ \E k \in Keys : ReaderDownloaded(k)
  \/ \E k \in Keys : ReaderLock(k)
  \/ \E k \in Keys : ReaderAppend(k)
  \/ WriterOpen
  \/ WriterLock
  \/ WriterPop
  \/ WriterHitIndexError
  \/ WriterWake
  \/ WriterRotate
  \/ WriterAddfile
  \/ WriterFault

SpecQueue == InitQueue /\ [][NextQueue]_vars

(***************************************************************************)
(* One run of the program from the command line on, with --extract or      *)
(* --verify doing their work on buckets left by earlier runs.              *)
(***************************************************************************)
\* A bucket other than bucket_name whose name starts with bucket_name.
OtherBucket == bucket_name \o <<"2">>

\* A bucket whose name does not start with bucket_name.
UnrelatedBucket == <<"a">>

\* A closed tar object of the archive bucket.
StoredTar(key, written, members) ==
  [key |-> key, mode |-> written, members |-> members, tf_closed |-> TRUE,
   out_closed |-> TRUE]

\* A member as write_tars_to_s3 adds it: name k, payload body.
Member(k, body, nbytes) ==
  [tarinfo |-> [name |-> k, size |-> nbytes],
   content |-> [body |-> body, nbytes |-> nbytes]]

\* Objects the archive bucket can hold, in the order S3 lists them
\* (a_file1.tar, then b2_file1.tar before b_file1.tar: "2" sorts before
\* "_"): a tar of UnrelatedBucket, a tar of OtherBucket, an uncompressed and
\* a compressed tar of bucket_name, and an object under bucket_name's prefix
\* that is not a tar stream.
ArchiveObjects(nbytes) ==
  << StoredTar(UnrelatedBucket \o <<"_file">> \o Fmt_d(1) \o UNCOMPRESS_TAIL,
               UNCOMPRESS_MODE, <<Member(1, Body(0), nbytes)>>),
     StoredTar(OtherBucket \o <<"_file">> \o Fmt_d(1) \o UNCOMPRESS_TAIL,
               UNCOMPRESS_MODE, <<Member(1, Body(0), nbytes)>>),
     StoredTar(tar_name(1, UNCOMPRESS_TAIL), UNCOMPRESS_MODE,
               <<Member(1, Body(1), nbytes)>>),
     StoredTar(tar_name(2, COMPRESS_TAIL), COMPRESS_MODE,
               [i \in 1..(NumObjects - 1) |-> Member(i + 1, Body(i + 1), nbytes)]),
     StoredTar(tar_name(3, UNCOMPRESS_TAIL), "damaged", <<>>) >>

\* The sub-sequence of seq at the indexes in keep.
RECURSIVE Keep(_, _, _)
Keep(seq, keep, i) ==
  IF i > Len(seq) THEN <<>>
  ELSE (IF i \in keep THEN <<seq[i]>> ELSE <<>>) \o Keep(seq, keep, i + 1)

\* What the buckets can hold when verify_bucket is called: under each key
\* of bucket_name the second bucket has the same payload, another payload,
\* or nothing.
VerifyTargets ==
  { {[key |-> k, body |-> IF c[k] = "same" THEN Body(k) ELSE Body(0)] :
       k \in {j \in Keys : c[j] # "absent"}} :
    c \in [Keys -> {"same", "other", "absent"}] }

InitMain ==
  /\ \E sz \in Sizes :
       bucket = [k \in Keys |-> [size |-> sz, body |-> Body(k)]]
  /\ compress = FALSE
  /\ ArchiveAtStart
  /\ ExtractAtStart
  /\ VerifyAtStart
  /\ ARGS \in [create : BOOLEAN, extract : BOOLEAN, verify : BOOLEAN,
                new_bucket_name : {NoName, "nb"}]
  /\ m_pc = "check_args"
  /\ m_op = "none"
  /\ m_diag = "none"
  /\ exit_code = 0
  /\ IF Selected(ARGS) = "extract"
       THEN /\ archive_exists \in BOOLEAN
            /\ new_exists \in BOOLEAN
            /\ \E keep \in SUBSET DOMAIN ArchiveObjects(bucket[1].size) :
                 tars = IF archive_exists
                          THEN Keep(ArchiveObjects(bucket[1].size), keep, 1)
                          ELSE <<>>
       ELSE /\ archive_exists = TRUE
            /\ new_exists = (Selected(ARGS) = "verify")
            /\ tars = <<>>
  /\ IF Selected(ARGS) = "verify"
       THEN new_bucket \in VerifyTargets
       ELSE new_bucket = {}

NextMain ==
  \/ MainCheckArgsReturn
  \/ MainCheckArgsExit
  \/ MainDispatch
  \/ MainNothingToDo
  \/ MainReturn
  \/ ExtractNoArchive
  \/ ExtractNoName
  \/ ExtractNewExists
  \/ ExtractStart
  \/ ExtractOpen
  \/ ExtractMember
  \/ ExtractCloseTar
  \/ VerifyFor
  \/ VerifyHeadOld
  \/ VerifyHeadNew
  \/ VerifyDiffer
  \/ VerifySame

SpecMain == InitMain /\ [][NextMain]_vars

\* Every thread that can take a step eventually takes one (the operating
\* system schedules each thread; no download or write is required to fail
\* or to succeed), and a thread waiting in LOCK.acquire() gets the lock if
\* it is released again and again.  extract_bucket is run by the operator:
\* no fairness.
FairSpec ==
  /\ Spec
  /\ WF_vars(OrchStep)
  /\ \A k \in Keys : WF_vars(ReaderStep(k)) /\ SF_vars(ReaderLock(k))
  /\ WF_vars(WriterStep) /\ SF_vars(WriterLock)

(***************************************************************************)
(* Operators the properties below are stated with.                         *)
(***************************************************************************)
RECURSIVE SumBytes(_)
SumBytes(members) ==
  IF members = <<>> THEN 0
  ELSE Head(members).content.nbytes + SumBytes(Tail(members))

\* How many times the name n was appended to FIFO.
TimesAppended(n) == Cardinality({i \in DOMAIN appended : appended[i] = n})

\* The end marks appended to FIFO so far.
EndMarksAppended == TimesAppended(NoTarinfo.name)

\* Places <<i, j>> of the tars where a member named n was added.
PlacesOf(n) ==
  {p \in {<<i, j>> : i \in DOMAIN tars, j \in 1..NumObjects} :
     /\ p[2] <= Len(tars[p[1]].members)
     /\ tars[p[1]].members[p[2]].tarinfo.name = n}

TotalMembers == Cardinality(UNION {PlacesOf(k) : k \in Keys})

\* The bucket as a set of [key, body], as new_bucket is.
Source == {[key |-> k, body |-> bucket[k].body] : k \in Keys}

WriterEnded == w_pc \in {"returned", "dead"}

\* The process is over: the main thread has returned and no thread is left.
ProcessEnded == o_pc = "returned" /\ RunningReaders = {} /\ WriterEnded

(***************************************************************************)
(* C1. Round trip: when archive_bucket and then extract_bucket have run,   *)
(* no download having been given up and no write having failed, the bucket *)
(* extracted to holds exactly the keys of the archived bucket, each with   *)
(* the payload of the source.                                              *)
(* The code does not have it: the tar in use when the run ends is never    *)
(* closed, so its members never reach the archive bucket.                  *)
(***************************************************************************)
C1_RoundTrip ==
  (/\ x_pc = "done"
   /\ w_pc # "dead"
   /\ \A k \in Keys : r_pc[k] = "ok")
  => new_bucket = Source

(***************************************************************************)
(* C2. When archive_bucket returns, every reader thread has finished and   *)
(* exactly one end mark was appended to FIFO; no end mark is ever on FIFO  *)
(* while a reader thread runs.                                             *)
(* The code does not have it: line 168 raises TypeError, archive_bucket    *)
(* returns through the bare except and no end mark is ever appended.       *)
(***************************************************************************)
C2_EndMarkOnce ==
  /\ o_pc = "returned" => (RunningReaders = {} /\ EndMarksAppended = 1)
  /\ EndMarksAppended > 0 => RunningReaders = {}

(***************************************************************************)
(* C3. When the writer has ended, the last tuple it popped is the end      *)
(* mark, every reader thread has finished and no tuple is left on FIFO.    *)
(* The code does not have it: no end mark is ever appended (C2), so the    *)
(* writer ends only through an exception of tf.addfile, with readers still *)
(* running and tuples left unwritten.                                      *)
(***************************************************************************)
C3_EndMarkLast ==
  WriterEnded => (w_item = None /\ RunningReaders = {} /\ FIFO = <<>>)

(***************************************************************************)
(* C4. Rotation bound: in every tar the payload bytes of all members but   *)
(* the last are at most `size`, every member carries the whole payload of  *)
(* its object, and no object is a member in two places.                    *)
(***************************************************************************)
C4_RotationBound ==
  /\ \A i \in DOMAIN tars :
       LET m == tars[i].members
       IN  /\ m # <<>> => SumBytes(SubSeq(m, 1, Len(m) - 1)) <= size
           /\ \A j \in DOMAIN m :
                /\ m[j].tarinfo.name \in Keys
                /\ m[j].tarinfo.size = bucket[m[j].tarinfo.name].size
                /\ m[j].content.nbytes = bucket[m[j].tarinfo.name].size
                /\ m[j].content.body = bucket[m[j].tarinfo.name].body
  /\ \A k \in Keys : Cardinality(PlacesOf(k)) <= 1

\* A tar that holds more than `size` bytes, and a later tar with a member.
C4_Witness ==
  /\ Len(tars) >= 2
  /\ SumBytes(tars[1].members) > size
  /\ tars[2].members # <<>>

(***************************************************************************)
(* C5. Rotation rule: between the pop of an entry and its addfile the      *)
(* writer closes the tar in use and opens the next one (name with count +  *)
(* 1, no member, bytes_written 0) if and only if bytes_written is strictly *)
(* greater than `size`; no other step changes the tar in use.  Three       *)
(* entries of 10 bytes with a size of 15 to 19 give two tars of 20 and 10  *)
(* bytes, named <bucket>_file1 and <bucket>_file2.                         *)
(***************************************************************************)
C5_RotateStep == w_pc = "rotate" /\ w_pc' = "addfile"

C5_Rotated ==
  /\ tarfile_count' = tarfile_count + 1
  /\ bytes_written' = 0
  /\ Len(tars') = Len(tars) + 1
  /\ tars'[tarfile_count].tf_closed /\ tars'[tarfile_count].out_closed
  /\ tars'[tarfile_count].members = tars[tarfile_count].members
  /\ tars'[tarfile_count'].key = tar_name(tarfile_count + 1, tail)
  /\ tars'[tarfile_count'].members = <<>>
  /\ ~tars'[tarfile_count'].tf_closed /\ ~tars'[tarfile_count'].out_closed

C5_Example ==
  (/\ TotalMembers = 3
   /\ \A i \in DOMAIN tars : \A j \in DOMAIN tars[i].members :
        tars[i].members[j].content.nbytes = 10
   /\ size \in 15..19)
  => /\ Len(tars) = 2
     /\ SumBytes(tars[1].members) = 20
     /\ SumBytes(tars[2].members) = 10
     /\ tars[1].key = bucket_name \o <<"_file", "1">> \o tail
     /\ tars[2].key = bucket_name \o <<"_file", "2">> \o tail

C6_Appended ==
  \A k \in Keys :
    /\ TimesAppended(k) = IF r_pc[k] = "ok" THEN 1 ELSE 0
    /\ retry[k] \in 0..5

C6_Step ==
  \A k \in Keys :
    /\ (r_pc[k] = "download" /\ r_pc'[k] = "dropped") =>
         /\ retry[k] = 5
         /\ slept[k] = 25
         /\ UNCHANGED <<FIFO, appended, LOCK, w_vars, o_vars>>
         /\ \A j \in Keys \ {k} : r_pc'[j] = r_pc[j]
    /\ (r_pc[k] = "download" /\ retry'[k] # retry[k]) =>
         /\ r_pc'[k] = "dropped" \/ retry'[k] = retry[k] + 1
         /\ r_pc'[k] = "download" => slept'[k] = 5 * retry'[k]
    /\ (r_pc[k] = "append" /\ r_pc'[k] = "ok") =>
         /\ FIFO' = Append(FIFO, Entry(k))
         /\ appended' = Append(appended, k)

\* C6: the retry budget, as the count of appends per object in every state
\* and the rule of every reader step.
C6_RetryBudget == []C6_Appended /\ [][C6_Step]_vars

\* One reader gave up after its sixth fault while another, after five
\* faults and a success, is about to append; the writer is alive.
C6_Witness ==
  \E k, j \in Keys :
    /\ r_pc[k] = "dropped"
    /\ r_pc[j] = "append" /\ retry[j] = 5 /\ slept[j] = 25
    /\ WriterAlive

(***************************************************************************)
(* C7. Backpressure.                                                       *)
(* As claimed (C7_StartBelowLimits): at most THREAD_LIMIT reader threads   *)
(* run at once, and a reader thread is started only in a state where fewer *)
(* than THREAD_LIMIT readers run and FIFO holds fewer than FIFO_LIMIT      *)
(* tuples.  The code does not have the second half: the test of line 159   *)
(* and reader.start() at line 165 are separate steps, and a reader in      *)
(* flight may append in between.                                           *)
(* As amended (C7_Backpressure): at most THREAD_LIMIT reader threads run   *)
(* at once (one fewer while the writer thread is alive); archive_bucket    *)
(* leaves its polling loop only in a state where fewer than THREAD_LIMIT   *)
(* readers run and FIFO holds fewer than FIFO_LIMIT tuples, and otherwise  *)
(* keeps polling; a reader thread is started only after the loop was left  *)
(* so, with fewer than THREAD_LIMIT readers running.                       *)
(***************************************************************************)
C7_ReaderStarted == \E k \in Keys : r_pc[k] = "unstarted" /\ r_pc'[k] # "unstarted"

C7_BelowLimits ==
  /\ Cardinality(RunningReaders) < THREAD_LIMIT
  /\ Len(FIFO) < FIFO_LIMIT

\* C7 as claimed: the limits hold in the state in which a reader is started.
C7_StartBelowLimits ==
  /\ [](Cardinality(RunningReaders) <= THREAD_LIMIT)
  /\ [][C7_ReaderStarted => C7_BelowLimits]_vars

\* C7 as amended: the limits hold in the state in which the polling loop is
\* left; a reader is started only after that.
C7_Backpressure ==
  /\ [](Cardinality(RunningReaders) + (IF WriterAlive THEN 1 ELSE 0)
          <= THREAD_LIMIT)
  /\ [][/\ (o_pc = "poll" /\ o_pc' = "spawn") => C7_BelowLimits
        /\ (o_pc = "poll" /\ ~C7_BelowLimits) => o_pc' \in {"poll", "sleep"}
        /\ (o_pc = "poll" /\ active_count <= THREAD_LIMIT /\ C7_BelowLimits)
             => o_pc' \in {"poll", "spawn"}
        /\ o_pc' = "spawn" => o_pc \in {"poll", "spawn"}
        /\ C7_ReaderStarted =>
             /\ o_pc = "spawn"
             /\ Cardinality(RunningReaders) < THREAD_LIMIT]_vars

\* archive_bucket has left the polling loop and is about to start a reader,
\* and FIFO has reached FIFO_LIMIT meanwhile.
C7_Witness == o_pc = "spawn" /\ Len(FIFO) >= FIFO_LIMIT

(***************************************************************************)
(* C8. When the writer has ended, by the end mark or by an exception, the  *)
(* tar stream in use and its output stream are closed, and the tuple it    *)
(* popped last, unless the end mark, is a member of a tar.                 *)
(* The code does not have it: the exception handlers of lines 292-304 and  *)
(* the return at line 269 close nothing.                                   *)
(***************************************************************************)
C8_ClosedOnExit ==
  WriterEnded =>
    /\ tars # <<>>
    /\ tars[tarfile_count].tf_closed
    /\ tars[tarfile_count].out_closed
    /\ w_item = None \/ PlacesOf(w_item.tarinfo.name) # {}

(***************************************************************************)
(* C9. Once a write has failed, the archive operation is over: no reader   *)
(* thread is started and no entry is added to a tar.                       *)
(* The code does not have it: sys.exit(-1) at lines 294-300 ends the       *)
(* writer thread only; archive_bucket goes on starting readers until FIFO  *)
(* holds FIFO_LIMIT tuples, and then polls for ever.                       *)
(***************************************************************************)
C9_FaultAborts ==
  [][w_pc = "dead" =>
       /\ \A k \in Keys : r_pc[k] = "unstarted" => r_pc'[k] = "unstarted"
       /\ tars' = tars]_vars

(***************************************************************************)
(* C10. Archive termination: every run of the archive operation comes to   *)
(* an end, archive_bucket returned and no thread left.                     *)
(* The code does not have it: archive_bucket returns at line 168 without   *)
(* the end mark and without the bounded join of lines 179-182, and the     *)
(* writer thread, which is no daemon, polls the empty FIFO for ever.       *)
(***************************************************************************)
C10_Terminates == <>ProcessEnded

(***************************************************************************)
(* C11.  verify_bucket returns without a report only if every key of the   *)
(* first bucket is in the second bucket with the same fingerprint; when it *)
(* reports a difference, the key reported is the first key whose           *)
(* fingerprints differ, both fingerprints are in the report,               *)
(* verify_bucket is over, and no head_object call was made for a later     *)
(* key; no head_object call is ever made past a key that differs.          *)
(***************************************************************************)
\* The payloads stored under key k in the second bucket.
C11_NewBodies(k) == {o.body : o \in {n \in new_bucket : n.key = k}}

\* Key k is in both buckets with one fingerprint.
C11_Equal(k) == C11_NewBodies(k) = {bucket[k].body}

\* Key k is in both buckets with two fingerprints.
C11_Differs(k) == C11_NewBodies(k) # {} /\ ~C11_Equal(k)

C11_FailFast ==
  /\ (v_pc = "done" /\ v_report.kind = "none") => \A k \in Keys : C11_Equal(k)
  /\ v_report.kind = "differ" =>
       /\ v_pc = "done"
       /\ v_report.key \in Keys
       /\ C11_Differs(v_report.key)
       /\ \A k \in Keys : k < v_report.key => C11_Equal(k)
       /\ v_report.old = md5(bucket[v_report.key].body)
       /\ {v_report.new} = {md5(b) : b \in C11_NewBodies(v_report.key)}
  /\ \A i \in DOMAIN v_lookups : \A k \in Keys :
       C11_Differs(k) => v_lookups[i][2] <= k

\* A difference at a key before the last was reported, a later key differs
\* too, and verify_bucket is over.
C11_Witness ==
  /\ v_pc = "done"
  /\ v_report.kind = "differ"
  /\ \E k \in Keys : k > v_report.key /\ C11_Differs(k)

(***************************************************************************)
(* C12.  When the process has ended, its exit status is non-zero if a      *)
(* usage error, a missing-bucket error, a corrupt-container error or a     *)
(* verify mismatch occurred, and 0 otherwise.                              *)
(***************************************************************************)
C12_ErrorOccurred ==
  \/ m_diag = "new bucket name must be specified"
  \/ x_report \in {"UnboundLocalError", "ReadError"}
  \/ v_report.kind = "differ"

C12_ExitStatus ==
  m_pc = "exited" => (exit_code # 0 <=> C12_ErrorOccurred)

(***************************************************************************)
(* C13.  An operation is called only if exactly one of --create, --extract *)
(* and --verify is set and, for extract and verify, a new bucket name is   *)
(* given; once check_args is over, a command line with two or more         *)
(* selectors, or with extract or verify and no new bucket name, has got a  *)
(* diagnostic and no operation is ever called for it.                      *)
(***************************************************************************)
C13_Selectors ==
  Cardinality({f \in {"create", "extract", "verify"} : ARGS[f]})

C13_Acceptable ==
  /\ C13_Selectors = 1
  /\ (ARGS.extract \/ ARGS.verify) => ARGS.new_bucket_name # NoName

C13_Selection ==
  /\ m_op # "none" => C13_Acceptable
  /\ (m_pc # "check_args" /\ C13_Selectors >= 1 /\ ~C13_Acceptable) =>
       (m_diag # "none" /\ m_op = "none")

(***************************************************************************)
(* C14.  Once extract_bucket has listed the archive bucket, it has printed *)
(* the not-found message exactly if no object of the archive bucket has a  *)
(* key starting with bucket_name; and then extract_bucket is over, no tar  *)
(* was opened and nothing was uploaded.                                    *)
(***************************************************************************)
C14_Matching ==
  {i \in Stored : \E n \in 0..Len(tars[i].key) :
                    SubSeq(tars[i].key, 1, n) = bucket_name}

C14_Listed ==
  /\ x_pc # "idle"
  /\ x_report \notin {"UnboundLocalError", "ParamValidationError",
                       "new bucket exists"}

C14_NotFound ==
  /\ C14_Listed => (x_report = "not found" <=> C14_Matching = {})
  /\ x_report = "not found" =>
       (x_pc = "done" /\ x_mode = "none" /\ x_log = <<>> /\ new_bucket = {})

\* The archive bucket holds tars, none of bucket_name; the message was
\* printed and main has returned.
C14_Witness ==
  /\ tars # <<>>
  /\ x_report = "not found"
  /\ m_pc = "exited"

(***************************************************************************)
(* C15.  For the tar extract_bucket has open (or has just failed to open), *)
(* the mode it chose is the decompressing mode exactly if the key of that  *)
(* tar ends in .tar.gz, and the plain mode if it ends in .tar; this holds  *)
(* for each tar of a run, whatever the mode of the tars before it.         *)
(***************************************************************************)
C15_EndsWith(key, suffix) ==
  /\ Len(suffix) <= Len(key)
  /\ SubSeq(key, Len(key) - Len(suffix) + 1, Len(key)) = suffix

C15_TarOpen ==
  x_pc = "member" \/ (x_pc = "done" /\ x_report = "ReadError")

C15_ModeByExtension ==
  C15_TarOpen =>
    LET key == tars[x_list[x_tar]].key
    IN  /\ x_mode = "r|gz" <=> C15_EndsWith(key, <<".tar", ".gz">>)
        /\ C15_EndsWith(key, <<".tar">>) => x_mode = "r|"

\* One run has uploaded from a tar it read in the plain mode and now reads
\* a tar in the decompressing mode.
C15_Witness ==
  /\ x_pc = "member"
  /\ x_mode = "r|gz"
  /\ \E i \in DOMAIN x_log : C15_EndsWith(x_log[i][1], <<".tar">>)
  /\ \E i \in DOMAIN x_log : x_log[i][1] = tars[x_list[x_tar]].key

(***************************************************************************)
(* C16.  As claimed: each listed object is handed to one reader thread,    *)
(* and once the archive run has nothing left to do, the members of the     *)
(* tars, in order, are the tuples appended to FIFO, in order.              *)
(***************************************************************************)
\* The names of the members of tars i, i + 1, ..., in order.
RECURSIVE C16_Written(_)
C16_Written(i) ==
  IF i > Len(tars) THEN <<>>
  ELSE [j \in DOMAIN tars[i].members |-> tars[i].members[j].tarinfo.name]
       \o C16_Written(i + 1)

C16_OneReaderEach ==
  /\ \A k \in Keys : k < o_idx <=> r_pc[k] # "unstarted"
  /\ \A k \in Keys : TimesAppended(k) <= 1

C16_RunOver ==
  /\ o_pc = "returned"
  /\ RunningReaders = {}
  /\ w_pc = "dead" \/ (w_pc = "sleep" /\ FIFO = <<>>)

C16_ExactlyOnce ==
  /\ C16_OneReaderEach
  /\ C16_RunOver => C16_Written(1) = appended

(***************************************************************************)
(* C16, amended.  Each listed object is handed to one reader thread and is *)
(* appended at most once; in every state the members of the tars, then the *)
(* tuple the writer has popped and not yet added, then the tuples in FIFO, *)
(* are the tuples appended, in order; so the members of the tars are the   *)
(* appended tuples whenever the writer, not dead, holds none and FIFO is   *)
(* empty.                                                                  *)
(***************************************************************************)
\* The tuple popped and not (or never) added.
C16_InHand ==
  IF w_pc \in {"rotate", "addfile", "dead"} THEN <<w_item.tarinfo.name>>
  ELSE <<>>

C16_Queued == [i \in DOMAIN FIFO |-> FIFO[i].tarinfo.name]

C16_HandOff ==
  /\ C16_OneReaderEach
  /\ C16_Written(1) \o C16_InHand \o C16_Queued = appended
  /\ (w_pc = "sleep" /\ FIFO = <<>>) => C16_Written(1) = appended

\* All objects were appended and the writer has added them all, across two
\* tars.
C16_Witness ==
  /\ Len(appended) = NumObjects
  /\ w_pc = "sleep"
  /\ FIFO = <<>>
  /\ Len(tars) >= 2
  /\ C16_Written(1) = appended

(***************************************************************************)
(* C17.  Every step that appends to FIFO, pops from it or reads its length *)
(* is taken by the thread that holds LOCK: the reader that appends, the    *)
(* writer that pops, and the main thread when its limit test reads         *)
(* len(FIFO).                                                              *)
(***************************************************************************)
\* LOCK is held, and neither by a reader nor by the writer.
C17_HeldByMain == LOCK \notin ({0, WRITER} \cup Keys)

\* The limit test of the main thread is evaluated down to len(FIFO).
C17_MainReadsLength ==
  /\ o_pc = "poll"
  /\ o_pc' # "poll"
  /\ active_count <= THREAD_LIMIT

C17_LockedAccess ==
  [][ /\ \A k \in Keys :
           (r_pc[k] = "append" /\ r_pc'[k] # "append") => LOCK = k
      /\ (w_pc = "pop" /\ w_pc' # "pop") => LOCK = WRITER
      /\ C17_MainReadsLength => C17_HeldByMain ]_vars

(***************************************************************************)
(* C18.  The uploads extract_bucket has made are, in order, an initial     *)
(* part of: the members of the first listed tar in stored order, then      *)
(* those of the second, and so on; each key uploaded holds in the new      *)
(* bucket the payload of the last member uploaded under that name; when    *)
(* extract_bucket returns without a report every member was uploaded; and  *)
(* no step moves to another member without exactly one upload, or uploads  *)
(* twice.                                                                  *)
(***************************************************************************)
\* <<tar key, member name, payload>> of the members of the tars listed at
\* positions i, i + 1, ... of x_list, in stored order.
RECURSIVE C18_Stored(_)
C18_Stored(i) ==
  IF i > Len(x_list) THEN <<>>
  ELSE LET t == tars[x_list[i]]
       IN  [j \in DOMAIN t.members |->
              <<t.key, t.members[j].tarinfo.name, t.members[j].content.body>>]
           \o C18_Stored(i + 1)

\* The positions of x_log at which name n was uploaded.
C18_UploadsOf(n) == {i \in DOMAIN x_log : x_log[i][2] = n}

C18_Max(S) == CHOOSE i \in S : \A j \in S : j <= i

C18_InStoredOrder ==
  /\ Len(x_log) <= Len(C18_Stored(1))
  /\ (x_pc = "done" /\ x_report = "none") => Len(x_log) = Len(C18_Stored(1))
  /\ \A i \in DOMAIN x_log :
       x_log[i] = <<C18_Stored(1)[i][1], C18_Stored(1)[i][2]>>
  /\ \A i \in DOMAIN x_list : \A j \in DOMAIN x_list :
       i < j => x_list[i] < x_list[j]
  /\ {o.key : o \in new_bucket} = {x_log[i][2] : i \in DOMAIN x_log}
  /\ \A o \in new_bucket :
       o.body = C18_Stored(1)[C18_Max(C18_UploadsOf(o.key))][3]

C18_OneAtATime ==
  /\ x_member' # x_member =>
       \/ x_member' = 1 /\ x_log' = x_log
       \/ x_member' = x_member + 1 /\ Len(x_log') = Len(x_log) + 1
  /\ x_log' # x_log =>
       /\ x_member' = x_member + 1
       /\ x_tar' = x_tar
       /\ SubSeq(x_log', 1, Len(x_log)) = x_log

C18_Sequential ==
  [](m_op = "extract" => C18_InStoredOrder) /\ [][C18_OneAtATime]_vars

\* extract_bucket has read two tars to their ends, the second with two
\* members or more, and returned.
C18_Witness ==
  /\ m_op = "extract"
  /\ x_pc = "done"
  /\ x_report = "none"
  /\ Len(x_log) >= 3
  /\ Len(x_log) = Len(C18_Stored(1))
  /\ \E i \in DOMAIN x_log : x_log[i][1] # x_log[1][1]

(***************************************************************************)
(* C19.  Every tar extract_bucket opens, and every tar it uploads a member *)
(* from, has a key that write_tars_to_s3 gives to the tars of bucket_name: *)
(* <bucket_name>_file<N> followed by .tar or .tar.gz.                      *)
(***************************************************************************)
C19_OwnKeys ==
  {tar_name(n, t) : n \in 1..9, t \in {UNCOMPRESS_TAIL, COMPRESS_TAIL}}

C19_Isolation ==
  /\ [][(x_pc = "open" /\ x_pc' # "open") =>
          tars[x_list[x_tar]].key \in C19_OwnKeys]_vars
  /\ [](\A i \in DOMAIN x_log : x_log[i][1] \in C19_OwnKeys)

(***************************************************************************)
(* C20.  The limit test passes only with fewer than FIFO_LIMIT tuples in   *)
(* FIFO and fewer than THREAD_LIMIT readers alive; after it has passed,    *)
(* FIFO grows by at most one tuple for each reader alive at that moment    *)
(* and one for the reader started next; so FIFO never holds more than      *)
(* FIFO_LIMIT + THREAD_LIMIT tuples.                                       *)
(***************************************************************************)
\* The reader the main thread is about to start.
C20_Pending == IF o_pc = "spawn" THEN 1 ELSE 0

C20_QueueBound ==
  /\ q_depth < FIFO_LIMIT
  /\ q_running < THREAD_LIMIT
  /\ Len(FIFO) + Cardinality(RunningReaders) + C20_Pending
       <= q_depth + q_running + 1
  /\ Len(FIFO) <= FIFO_LIMIT + THREAD_LIMIT

\* FIFO holds more than FIFO_LIMIT tuples: all the test let through.
C20_Witness ==
  /\ Len(FIFO) > FIFO_LIMIT
  /\ Len(FIFO) = q_depth + q_running + 1

====
